---- MODULE Spec2Model ----
(***************************************************************************)
(* A model of package flow (github.com/adracus/flow): the coordination     *)
(* operations Sequence, Parallel, ParallelCancelOnError, Race and RaceCond *)
(* of flow.go, run on the default Flow (an UnlimitedExecutor).             *)
(*                                                                         *)
(* One coordination call is modelled per behaviour: the caller's thread    *)
(* (pc), one goroutine per submitted job (job[i]), the goroutine of runAll *)
(* that waits on the WaitGroup and closes the results channel (waiter),    *)
(* and the environment, which may cancel the caller's context at any time. *)
(***************************************************************************)
EXTENDS Integers, Sequences, FiniteSets, Bags, TLC

\* The largest number of functions handed to one call.
MaxTasks == 3

VARIABLES
    op,          \* the operation called
    fns,         \* its functions, fns[i] a task record
    parentDone,  \* the caller's context is cancelled
    doneAtCall,  \* the caller's context was already cancelled when the call began
    hasChild,    \* context.WithCancel was called: the functions get the child
    childDone,   \* cancel() of the child context was called
    cancels,     \* number of calls of cancel() so far
    pc,          \* position of the caller's thread
    idx,         \* loop index of the caller (runAll's i, Sequence's range index)
    job,         \* job[i]: position of the goroutine of function i
    jobRes,      \* jobRes[i]: what function i returned (once it has)
    invoked,     \* invoked[i]: how often function i was invoked
    wg,          \* counter of runAll's sync.WaitGroup
    waiter,      \* runAll's goroutine around wg.Wait(): "none", "waiting", "exited"
    closed,      \* number of times the results channel was closed
    received,    \* indexes of the functions whose result the caller received, in order
    cur,         \* the result the caller holds between the receive and its handling
    errs,        \* the multiError under construction
    out,         \* the items under construction (typed Parallel)
    winner,      \* Race: the result kept for the return
    ret          \* what the call returned (once pc = "done")

\* The state of one coordination call.
flowVars == <<op, fns, parentDone, doneAtCall, hasChild, childDone, cancels, pc, idx, job,
              jobRes, invoked, wg, waiter, closed, received, cur, errs, out, winner, ret>>

\* The largest number of functions submitted to a LimitingExecutor.
MaxJobs == 3

\* The largest limit a LimitingExecutor is made with.
MaxLimit == 2

\* The largest number of control loops a LimitingExecutor starts.
MaxStarts == 2

\* The largest number of iterations without effect counted for a control loop.
MaxIdle == 2

\* The LimitingExecutor, its control loops and the functions submitted to it:
\* a record of the fields named below, or NoExecutor.
VARIABLE ex

\* p.maxRunning
limit == ex.limit

\* How many control loops Start may create in this behaviour.
starts == ex.starts

\* p.ingest: 0 for nil, else the channel made by the g-th effective Start.
ingest == ex.ingest

\* The number of channels (and control loops) made so far.
gens == ex.gens

\* chClosed[g]: the number of times channel g was closed.
chClosed == ex.chClosed

\* loop[g]: "none", "running" (in the select loop), "waiting" (in wg.Wait()),
\* "exited".
loop == ex.loop

\* queue[g]: the queue of control loop g, a sequence of functions.
queue == ex.queue

\* current[g]: the counter current of control loop g.
current == ex.current

\* ewg[g]: the counter of control loop g's sync.WaitGroup.
ewg == ex.ewg

\* efn[k]: what function k does, "plain" or "barrier".
efn == ex.efn

\* ejob[k]: where function k is on its way through the executor: "idle",
\* "submit", "queued", "dispatched", "running", "returned", "finished", or
\* "panicked".
ejob == ex.ejob

\* etarget[k]: the value of p.ingest that Submit(k) read.
etarget == ex.etarget

\* The number of functions of the barrier that have started.
arrived == ex.arrived

\* accepted[g]: the functions control loop g took from its channel, in order.
accepted == ex.accepted

\* dispatched[g]: the functions control loop g handed to the inner executor,
\* in order.
dispatched == ex.dispatched

\* "never", "closed" (a Stop closed a channel), "again" (a later Stop found
\* p.ingest nil).
stopped == ex.stopped

\* idle[g]: the number of iterations of control loop g that took the default
\* branch and found nothing to dispatch.
idle == ex.idle

execVars == ex

vars == <<flowVars, execVars>>

Gens == 1..MaxStarts

\* There is no LimitingExecutor.
NoExecutor == "none"

\* No LimitingExecutor is in use: the call runs on the UnlimitedExecutor.
ExecUnused == ex = NoExecutor

-----------------------------------------------------------------------------
(* Errors and results *)

\* The nil error.
Nil == "nil"

\* context.Canceled, the value of ctx.Err() once the context is done.
Canceled == "context canceled"

\* The error of the tests: a distinct error value per id.
mkError(id) == "error " \o ToString(id)

\* stringResult / intResult / boolResult: an item and an error.
Result(item, err) == [item |-> item, err |-> err]

\* The zero value of a result (var out boolResult).
ZeroResult == Result(FALSE, Nil)

\* No result yet.
NoResult == [item |-> FALSE, err |-> "none"]

\* An error value as a call returns it: a plain error (or nil), or a multiError.
PlainError(e) == [multi |-> FALSE, err |-> e, members |-> <<>>]

\* A multiError value carrying the errors m.
MultiError(m) == [multi |-> TRUE, err |-> "multi", members |-> m]

ErrorOrNilMutAlways(m) == MultiError(m)

\* multiError.ErrorOrNil: the multiError itself if it has members, else nil.
ErrorOrNil(m) == IF Len(m) > 0 THEN MultiError(m) ELSE PlainError(Nil)

\* Errors: the members of a multiError, nil (no members) for any other error.
Errors(e) == IF e.multi THEN e.members ELSE <<>>

\* What a call returns: an item, the items of a typed Parallel, and an error.
Return(item, items, e) == [item |-> item, out |-> items, err |-> e]

NoReturn == Return(FALSE, <<>>, PlainError("none"))

-----------------------------------------------------------------------------
(* Functions (tasks) *)

\* A function that returns (item, err) at once, whatever its context.
ReturnTask(item, err) == [kind |-> "return", item |-> item, err |-> err]

\* A function that blocks until its context is done and then returns the
\* context's error (waitForContextToErrorAndReturnError of the tests).
WaitTask == [kind |-> "wait", item |-> FALSE, err |-> "ctx"]

\* The Funcs the i-th argument is drawn from.
FuncTasks(i) == {ReturnTask(FALSE, Nil), ReturnTask(FALSE, mkError(i)), WaitTask}

\* The BoolFuncs the i-th argument is drawn from.
BoolFuncTasks(i) == {ReturnTask(FALSE, Nil), ReturnTask(TRUE, Nil),
                     ReturnTask(FALSE, mkError(i)), WaitTask}

AllTasks == UNION {FuncTasks(i) \cup BoolFuncTasks(i) : i \in 1..MaxTasks}

Typed(o) == o \in {"ParallelBool", "ParallelBoolCancelOnError", "RaceBool", "RaceCond"}

TasksOf(o, i) == IF Typed(o) THEN BoolFuncTasks(i) ELSE FuncTasks(i)

\* The argument lists of a call of o.
TaskLists(o) ==
    UNION {{f \in [1..n -> AllTasks] : \A i \in 1..n : f[i] \in TasksOf(o, i)} : n \in 0..MaxTasks}

N == Len(fns)

\* The context handed to the functions is done.
CtxDone == parentDone \/ (hasChild /\ childDone)

\* What a blocked function returns once its context is done: ctx.Err().
WaitResult(t) == Result(FALSE, Canceled)

-----------------------------------------------------------------------------
(* Initial states *)

\* The state of the caller and of the functions at the call of an operation.
InitFlow(ops) ==
    /\ op \in ops
    /\ fns \in TaskLists(op)
    /\ parentDone \in BOOLEAN
    /\ doneAtCall = parentDone
    /\ hasChild = FALSE
    /\ childDone = FALSE
    /\ cancels = 0
    /\ pc = "start"
    /\ idx = 1
    /\ job = [i \in 1..Len(fns) |-> "idle"]
    /\ jobRes = [i \in 1..Len(fns) |-> NoResult]
    /\ invoked = [i \in 1..Len(fns) |-> 0]
    /\ wg = 0
    /\ waiter = "none"
    /\ closed = 0
    /\ received = <<>>
    /\ cur = NoResult
    /\ errs = <<>>
    /\ out = <<>>
    /\ winner = ZeroResult
    /\ ret = NoReturn

\* A call on the default Flow, New(UnlimitedExecutor).
InitCall(ops) ==
    /\ InitFlow(ops)
    /\ ExecUnused

\* The caller's context is cancelled (or expires) at some moment.
CancelParent ==
    /\ UNCHANGED execVars
    /\ ~parentDone
    /\ pc # "done"
    /\ parentDone' = TRUE
    /\ UNCHANGED <<op, fns, doneAtCall, hasChild, childDone, cancels, pc, idx, job, jobRes,
                   invoked, wg, waiter, closed, received, cur, errs, out, winner, ret>>

-----------------------------------------------------------------------------
(* Sequence *)

\* The variables Sequence leaves alone: it uses neither runAll nor a channel.
fanVars == <<hasChild, childDone, cancels, wg, waiter, closed, received, cur, errs, out, winner>>

\* for _, fn := range fns: the loop ends, return nil.
SeqEnd ==
    /\ UNCHANGED execVars
    /\ op = "Sequence"
    /\ pc = "start"
    /\ idx > N
    /\ pc' = "done"
    /\ ret' = Return(FALSE, <<>>, PlainError(Nil))
    /\ UNCHANGED <<op, fns, parentDone, doneAtCall, idx, job, jobRes, invoked>>
    /\ UNCHANGED fanVars

\* fn(ctx) is called on the caller's thread.
SeqCall ==
    /\ UNCHANGED execVars
    /\ op = "Sequence"
    /\ pc = "start"
    /\ idx <= N
    /\ invoked' = [invoked EXCEPT ![idx] = @ + 1]
    /\ job' = [job EXCEPT ![idx] = "running"]
    /\ pc' = "in fn"
    /\ UNCHANGED <<op, fns, parentDone, doneAtCall, idx, jobRes, ret>>
    /\ UNCHANGED fanVars

SeqAfterFnMutSwallow(r) ==
    /\ pc' = "check ctx"
    /\ ret' = ret

\* if err := fn(ctx); err != nil { return err }
SeqAfterFn(r) ==
    IF r.err # Nil
    THEN /\ pc' = "done"
         /\ ret' = Return(FALSE, <<>>, PlainError(r.err))
    ELSE /\ pc' = "check ctx"
         /\ ret' = ret

\* fn(ctx) returns.
SeqFnReturn ==
    /\ UNCHANGED execVars
    /\ op = "Sequence"
    /\ pc = "in fn"
    /\ \/ fns[idx].kind = "return"
       \/ fns[idx].kind = "wait" /\ CtxDone
    /\ LET r == IF fns[idx].kind = "return"
                THEN Result(fns[idx].item, fns[idx].err)
                ELSE WaitResult(fns[idx])
       IN /\ jobRes' = [jobRes EXCEPT ![idx] = r]
          /\ job' = [job EXCEPT ![idx] = "done"]
          /\ SeqAfterFn(r)
    /\ UNCHANGED <<op, fns, parentDone, doneAtCall, idx, invoked>>
    /\ UNCHANGED fanVars

SeqCheckCtxMutSkip ==
    /\ pc' = "start"
    /\ idx' = idx + 1
    /\ ret' = ret

\* if err := ctx.Err(); err != nil { return err }
SeqCheckCtxBody ==
    IF CtxDone
    THEN /\ pc' = "done"
         /\ ret' = Return(FALSE, <<>>, PlainError(Canceled))
         /\ idx' = idx
    ELSE /\ pc' = "start"
         /\ idx' = idx + 1
         /\ ret' = ret

SeqCheckCtx ==
    /\ UNCHANGED execVars
    /\ op = "Sequence"
    /\ pc = "check ctx"
    /\ SeqCheckCtxBody
    /\ UNCHANGED <<op, fns, parentDone, doneAtCall, job, jobRes, invoked>>
    /\ UNCHANGED fanVars

InitSequence == InitCall({"Sequence"})

NextSequence == SeqEnd \/ SeqCall \/ SeqFnReturn \/ SeqCheckCtx \/ CancelParent

SpecSequence == InitSequence /\ [][NextSequence]_vars

-----------------------------------------------------------------------------
(* Flow: the operations that fan out through runAll and fan in on a channel *)

ParallelOps == {"Parallel", "ParallelBool"}
CancelOnErrorOps == {"ParallelCancelOnError", "ParallelBoolCancelOnError"}
RaceOps == {"Race", "RaceBool"}
RaceCondOps == {"RaceCond"}

DerivesChildMutAll(o) == TRUE

\* The operations that derive a child context (context.WithCancel).
DerivesChild(o) == o \in CancelOnErrorOps \cup RaceOps \cup RaceCondOps

\* What an operation returns for no functions: nil, (nil, nil), (false, nil).
Identity == Return(FALSE, <<>>, PlainError(Nil))

CallMutNoEarlyReturn ==
    /\ UNCHANGED execVars
    /\ op # "Sequence"
    /\ pc = "start"
    /\ pc' = "submit"
    /\ hasChild' = DerivesChild(op)
    /\ wg' = N
    /\ UNCHANGED <<op, fns, parentDone, doneAtCall, childDone, cancels, idx, job, jobRes,
                   invoked, waiter, closed, received, cur, errs, out, winner, ret>>

\* The entry of an operation: return at once for no functions; else derive
\* the child context where the operation has one, make the results channel
\* and enter runAll (wg.Add(l)).
Call ==
    /\ UNCHANGED execVars
    /\ op # "Sequence"
    /\ pc = "start"
    /\ IF N = 0
       THEN /\ pc' = "done"
            /\ ret' = Identity
            /\ UNCHANGED <<hasChild, wg>>
       ELSE /\ pc' = "submit"
            /\ hasChild' = DerivesChild(op)
            /\ wg' = N
            /\ ret' = ret
    /\ UNCHANGED <<op, fns, parentDone, doneAtCall, childDone, cancels, idx, job, jobRes,
                   invoked, waiter, closed, received, cur, errs, out, winner>>

\* runAll's loop: f.executor.Submit(func() { defer wg.Done(); run(i) }), on
\* the UnlimitedExecutor: go f().
Submit ==
    /\ UNCHANGED execVars
    /\ pc = "submit"
    /\ idx <= N
    /\ job' = [job EXCEPT ![idx] = "submitted"]
    /\ idx' = idx + 1
    /\ UNCHANGED <<op, fns, parentDone, doneAtCall, hasChild, childDone, cancels, pc, jobRes,
                   invoked, wg, waiter, closed, received, cur, errs, out, winner, ret>>

\* runAll's go func() { defer deferred(); wg.Wait() }(), after the loop.
SpawnWaiter ==
    /\ UNCHANGED execVars
    /\ pc = "submit"
    /\ idx > N
    /\ waiter' = "waiting"
    /\ pc' = "recv"
    /\ UNCHANGED <<op, fns, parentDone, doneAtCall, hasChild, childDone, cancels, idx, job,
                   jobRes, invoked, wg, closed, received, cur, errs, out, winner, ret>>

\* The goroutine of job i calls fns[i](ctx). A function that does not wait
\* for its context returns at once; the job then offers its result on the
\* channel.
JobInvoke(i) ==
    /\ UNCHANGED execVars
    /\ job[i] = "submitted"
    /\ invoked' = [invoked EXCEPT ![i] = @ + 1]
    /\ IF fns[i].kind = "return"
       THEN /\ jobRes' = [jobRes EXCEPT ![i] = Result(fns[i].item, fns[i].err)]
            /\ job' = [job EXCEPT ![i] = "sending"]
       ELSE /\ jobRes' = jobRes
            /\ job' = [job EXCEPT ![i] = "running"]
    /\ UNCHANGED <<op, fns, parentDone, doneAtCall, hasChild, childDone, cancels, pc, idx,
                   wg, waiter, closed, received, cur, errs, out, winner, ret>>

\* A function blocked on <-ctx.Done() returns once the context it was given
\* is done.
JobUnblock(i) ==
    /\ UNCHANGED execVars
    /\ job[i] = "running"
    /\ CtxDone
    /\ jobRes' = [jobRes EXCEPT ![i] = WaitResult(fns[i])]
    /\ job' = [job EXCEPT ![i] = "sending"]
    /\ UNCHANGED <<op, fns, parentDone, doneAtCall, hasChild, childDone, cancels, pc, idx,
                   invoked, wg, waiter, closed, received, cur, errs, out, winner, ret>>

\* defer wg.Done() of a job whose send was received.
JobDone(i) ==
    /\ UNCHANGED execVars
    /\ job[i] = "sent"
    /\ job' = [job EXCEPT ![i] = "done"]
    /\ wg' = wg - 1
    /\ UNCHANGED <<op, fns, parentDone, doneAtCall, hasChild, childDone, cancels, pc, idx,
                   jobRes, invoked, waiter, closed, received, cur, errs, out, winner, ret>>

WaiterCloseMutNoWait ==
    /\ UNCHANGED execVars
    /\ waiter = "waiting"
    /\ waiter' = "exited"
    /\ closed' = closed + 1
    /\ UNCHANGED <<op, fns, parentDone, doneAtCall, hasChild, childDone, cancels, pc, idx,
                   job, jobRes, invoked, wg, received, cur, errs, out, winner, ret>>

\* wg.Wait() returns and the deferred close(results) runs.
WaiterClose ==
    /\ UNCHANGED execVars
    /\ waiter = "waiting"
    /\ wg = 0
    /\ waiter' = "exited"
    /\ closed' = closed + 1
    /\ UNCHANGED <<op, fns, parentDone, doneAtCall, hasChild, childDone, cancels, pc, idx,
                   job, jobRes, invoked, wg, received, cur, errs, out, winner, ret>>

\* The rendezvous on the unbuffered channel: job i's send and the caller's
\* receive.
Rendezvous(i) ==
    /\ job[i] = "sending"
    /\ closed = 0
    /\ job' = [job EXCEPT ![i] = "sent"]
    /\ received' = Append(received, i)

CollectMutKeepLast(r) ==
    IF r.err # Nil
    THEN /\ errs' = <<r.err>>
         /\ out' = out
    ELSE /\ errs' = errs
         /\ out' = IF Typed(op) THEN Append(out, r.item) ELSE out

CollectMutNoContinue(r) ==
    /\ errs' = IF r.err # Nil THEN Append(errs, r.err) ELSE errs
    /\ out' = IF Typed(op) THEN Append(out, r.item) ELSE out

\* Parallel's loop body: collect a non-nil error, else (typed) the item.
Collect(r) ==
    IF r.err # Nil
    THEN /\ errs' = Append(errs, r.err)
         /\ out' = out
    ELSE /\ errs' = errs
         /\ out' = IF Typed(op) THEN Append(out, r.item) ELSE out

\* for err := range results { ... } of Parallel: one iteration.
ParallelReceive(i) ==
    /\ UNCHANGED execVars
    /\ op \in ParallelOps
    /\ pc = "recv"
    /\ Rendezvous(i)
    /\ Collect(jobRes[i])
    /\ UNCHANGED <<op, fns, parentDone, doneAtCall, hasChild, childDone, cancels, pc, idx,
                   jobRes, invoked, wg, waiter, closed, cur, winner, ret>>

CancelOnErrorReceiveMutAlwaysCancel(i) ==
    /\ UNCHANGED execVars
    /\ op \in CancelOnErrorOps
    /\ pc = "recv"
    /\ Rendezvous(i)
    /\ cur' = jobRes[i]
    /\ pc' = "cancel"
    /\ UNCHANGED <<errs, out>>
    /\ UNCHANGED <<op, fns, parentDone, doneAtCall, hasChild, childDone, cancels, idx,
                   jobRes, invoked, wg, waiter, closed, winner, ret>>

\* for err := range results { ... } of ParallelCancelOnError: a result is
\* received; a nil one is handled at once, a non-nil one goes on to cancel().
CancelOnErrorReceive(i) ==
    /\ UNCHANGED execVars
    /\ op \in CancelOnErrorOps
    /\ pc = "recv"
    /\ Rendezvous(i)
    /\ IF jobRes[i].err # Nil
       THEN /\ cur' = jobRes[i]
            /\ pc' = "cancel"
            /\ UNCHANGED <<errs, out>>
       ELSE /\ Collect(jobRes[i])
            /\ UNCHANGED <<cur, pc>>
    /\ UNCHANGED <<op, fns, parentDone, doneAtCall, hasChild, childDone, cancels, idx,
                   jobRes, invoked, wg, waiter, closed, winner, ret>>

\* cancel(): the child context becomes done; a repeated call changes nothing.
Cancel ==
    /\ childDone' = TRUE
    /\ cancels' = cancels + 1

CancelOnErrorCancelMutNoAppend ==
    /\ UNCHANGED execVars
    /\ op \in CancelOnErrorOps
    /\ pc = "cancel"
    /\ Cancel
    /\ pc' = "recv"
    /\ UNCHANGED <<op, fns, parentDone, doneAtCall, hasChild, idx, job, jobRes, invoked,
                   wg, waiter, closed, received, cur, errs, out, winner, ret>>

CancelOnErrorCancelMutNoCancel ==
    /\ UNCHANGED execVars
    /\ op \in CancelOnErrorOps
    /\ pc = "cancel"
    /\ Collect(cur)
    /\ pc' = "recv"
    /\ UNCHANGED <<op, fns, parentDone, doneAtCall, hasChild, childDone, cancels, idx, job,
                   jobRes, invoked, wg, waiter, closed, received, cur, winner, ret>>

\* cancel(); errs = append(errs, err) of ParallelCancelOnError.
CancelOnErrorCancel ==
    /\ UNCHANGED execVars
    /\ op \in CancelOnErrorOps
    /\ pc = "cancel"
    /\ Cancel
    /\ Collect(cur)
    /\ pc' = "recv"
    /\ UNCHANGED <<op, fns, parentDone, doneAtCall, hasChild, idx, job, jobRes, invoked,
                   wg, waiter, closed, received, cur, winner, ret>>

\* The deferred cancel() of the operations that derived a child context.
DeferredCancel ==
    IF hasChild THEN Cancel ELSE UNCHANGED <<childDone, cancels>>

\* The range loop of Parallel and ParallelCancelOnError ends on the closed
\* channel: return (out,) errs.ErrorOrNil().
ParallelReturn ==
    /\ UNCHANGED execVars
    /\ op \in ParallelOps \cup CancelOnErrorOps
    /\ pc = "recv"
    /\ closed > 0
    /\ DeferredCancel
    /\ ret' = Return(FALSE, out, ErrorOrNil(errs))
    /\ pc' = "done"
    /\ UNCHANGED <<op, fns, parentDone, doneAtCall, hasChild, idx, job, jobRes, invoked,
                   wg, waiter, closed, received, cur, errs, out, winner>>

\* res := <-results of Race.
RaceReceive(i) ==
    /\ UNCHANGED execVars
    /\ op \in RaceOps
    /\ pc = "recv"
    /\ Rendezvous(i)
    /\ winner' = jobRes[i]
    /\ pc' = "cancel"
    /\ UNCHANGED <<op, fns, parentDone, doneAtCall, hasChild, childDone, cancels, idx,
                   jobRes, invoked, wg, waiter, closed, cur, errs, out, ret>>

RaceCancelMutNoCancel ==
    /\ UNCHANGED execVars
    /\ op \in RaceOps
    /\ pc = "cancel"
    /\ pc' = "drain"
    /\ UNCHANGED <<op, fns, parentDone, doneAtCall, hasChild, childDone, cancels, idx, job,
                   jobRes, invoked, wg, waiter, closed, received, cur, errs, out, winner, ret>>

\* cancel() of Race, after the first result.
RaceCancel ==
    /\ UNCHANGED execVars
    /\ op \in RaceOps
    /\ pc = "cancel"
    /\ Cancel
    /\ pc' = "drain"
    /\ UNCHANGED <<op, fns, parentDone, doneAtCall, hasChild, idx, job, jobRes, invoked,
                   wg, waiter, closed, received, cur, errs, out, winner, ret>>

QualifiesMutErrOnly(r) == r.err # Nil

\* if res.err != nil || res.item: the results that end RaceCond's wait.
Qualifies(r) == r.err # Nil \/ r.item

\* for res := range results { ... } of RaceCond: one receive.
RaceCondReceive(i) ==
    /\ UNCHANGED execVars
    /\ op \in RaceCondOps
    /\ pc = "recv"
    /\ Rendezvous(i)
    /\ IF Qualifies(jobRes[i])
       THEN /\ cur' = jobRes[i]
            /\ pc' = "cancel"
       ELSE UNCHANGED <<cur, pc>>
    /\ UNCHANGED <<op, fns, parentDone, doneAtCall, hasChild, childDone, cancels, idx,
                   jobRes, invoked, wg, waiter, closed, errs, out, winner, ret>>

\* cancel(); out = res; break of RaceCond.
RaceCondCancel ==
    /\ UNCHANGED execVars
    /\ op \in RaceCondOps
    /\ pc = "cancel"
    /\ Cancel
    /\ winner' = cur
    /\ pc' = "drain"
    /\ UNCHANGED <<op, fns, parentDone, doneAtCall, hasChild, idx, job, jobRes, invoked,
                   wg, waiter, closed, received, cur, errs, out, ret>>

\* RaceCond's first range loop ends on the closed channel: no result
\* qualified.
RaceCondRangeEnd ==
    /\ UNCHANGED execVars
    /\ op \in RaceCondOps
    /\ pc = "recv"
    /\ closed > 0
    /\ pc' = "drain"
    /\ UNCHANGED <<op, fns, parentDone, doneAtCall, hasChild, childDone, cancels, idx, job,
                   jobRes, invoked, wg, waiter, closed, received, cur, errs, out, winner, ret>>

DrainMutKeepLast(i) ==
    /\ UNCHANGED execVars
    /\ op \in RaceOps \cup RaceCondOps
    /\ pc = "drain"
    /\ Rendezvous(i)
    /\ winner' = jobRes[i]
    /\ UNCHANGED <<op, fns, parentDone, doneAtCall, hasChild, childDone, cancels, pc, idx,
                   jobRes, invoked, wg, waiter, closed, cur, errs, out, ret>>

\* for range results { }: a remaining result is received and dropped.
Drain(i) ==
    /\ UNCHANGED execVars
    /\ op \in RaceOps \cup RaceCondOps
    /\ pc = "drain"
    /\ Rendezvous(i)
    /\ UNCHANGED <<op, fns, parentDone, doneAtCall, hasChild, childDone, cancels, pc, idx,
                   jobRes, invoked, wg, waiter, closed, cur, errs, out, winner, ret>>

RaceReturnMutBackgroundDrain ==
    /\ UNCHANGED execVars
    /\ op \in RaceOps \cup RaceCondOps
    /\ pc = "drain"
    /\ DeferredCancel
    /\ ret' = Return(winner.item, <<>>, PlainError(winner.err))
    /\ pc' = "done"
    /\ UNCHANGED <<op, fns, parentDone, doneAtCall, hasChild, idx, job, jobRes, invoked,
                   wg, waiter, closed, received, cur, errs, out, winner>>

\* for range results { } ends on the closed channel: return the kept result.
RaceReturn ==
    /\ UNCHANGED execVars
    /\ op \in RaceOps \cup RaceCondOps
    /\ pc = "drain"
    /\ closed > 0
    /\ DeferredCancel
    /\ ret' = Return(winner.item, <<>>, PlainError(winner.err))
    /\ pc' = "done"
    /\ UNCHANGED <<op, fns, parentDone, doneAtCall, hasChild, idx, job, jobRes, invoked,
                   wg, waiter, closed, received, cur, errs, out, winner>>

\* The steps of the goroutines that runAll starts.
Jobs ==
    \/ \E i \in 1..N : JobInvoke(i)
    \/ \E i \in 1..N : JobUnblock(i)
    \/ \E i \in 1..N : JobDone(i)
    \/ WaiterClose

RunAll == Call \/ Submit \/ SpawnWaiter \/ Jobs

InitParallel == InitCall(ParallelOps)

StepParallel == RunAll \/ (\E i \in 1..N : ParallelReceive(i)) \/ ParallelReturn

NextParallel == StepParallel \/ CancelParent

SpecParallel == InitParallel /\ [][NextParallel]_vars

InitCancelOnError == InitCall(CancelOnErrorOps)

StepCancelOnError ==
    \/ RunAll
    \/ \E i \in 1..N : CancelOnErrorReceive(i)
    \/ CancelOnErrorCancel
    \/ ParallelReturn

NextCancelOnError == StepCancelOnError \/ CancelParent

SpecCancelOnError == InitCancelOnError /\ [][NextCancelOnError]_vars

\* Every goroutine that can run eventually does (the Go scheduler); the
\* environment is not obliged to cancel the caller's context. The items play
\* no part in the cancellation: the call is of the operation without items.
InitZeroItemCancelOnError == InitCancelOnError /\ ~Typed(op)

FairSpecCancelOnError ==
    InitZeroItemCancelOnError /\ [][NextCancelOnError]_vars /\ WF_vars(StepCancelOnError)

InitParallelFamily == InitCall(ParallelOps \cup CancelOnErrorOps)

NextParallelFamily ==
    \/ RunAll
    \/ \E i \in 1..N : ParallelReceive(i)
    \/ \E i \in 1..N : CancelOnErrorReceive(i)
    \/ CancelOnErrorCancel
    \/ ParallelReturn
    \/ CancelParent

\* Parallel and ParallelCancelOnError side by side.
SpecParallelFamily == InitParallelFamily /\ [][NextParallelFamily]_vars

InitRace == InitCall(RaceOps)

StepRace ==
    \/ RunAll
    \/ \E i \in 1..N : RaceReceive(i)
    \/ RaceCancel
    \/ \E i \in 1..N : Drain(i)
    \/ RaceReturn

NextRace == StepRace \/ CancelParent

SpecRace == InitRace /\ [][NextRace]_vars

\* As for FairSpecCancelOnError.
InitZeroItemRace == InitRace /\ ~Typed(op)

FairSpecRace == InitZeroItemRace /\ [][NextRace]_vars /\ WF_vars(StepRace)

InitRaceCond == InitCall(RaceCondOps)

StepRaceCond ==
    \/ RunAll
    \/ \E i \in 1..N : RaceCondReceive(i)
    \/ RaceCondCancel
    \/ RaceCondRangeEnd
    \/ \E i \in 1..N : Drain(i)
    \/ RaceReturn

NextRaceCond == StepRaceCond \/ CancelParent

SpecRaceCond == InitRaceCond /\ [][NextRaceCond]_vars

\* Every operation, called with functions that return the zero item.
InitAllOps ==
    /\ InitCall({"Sequence"} \cup ParallelOps \cup CancelOnErrorOps \cup RaceOps \cup RaceCondOps)
    /\ \A i \in 1..N : fns[i] \in FuncTasks(i)

NextAllOps ==
    \/ SeqEnd \/ SeqCall \/ SeqFnReturn \/ SeqCheckCtx
    \/ RunAll
    \/ \E i \in 1..N : ParallelReceive(i)
    \/ \E i \in 1..N : CancelOnErrorReceive(i)
    \/ CancelOnErrorCancel
    \/ ParallelReturn
    \/ \E i \in 1..N : RaceReceive(i)
    \/ RaceCancel
    \/ \E i \in 1..N : RaceCondReceive(i)
    \/ RaceCondCancel
    \/ RaceCondRangeEnd
    \/ \E i \in 1..N : Drain(i)
    \/ RaceReturn
    \/ CancelParent

SpecAllOps == InitAllOps /\ [][NextAllOps]_vars

-----------------------------------------------------------------------------
(* LimitingExecutor *)

\* The number of functions the barrier of the test waits for (wg.Add(2)).
BarrierSize == 2

\* No coordination call is in progress: the executor is used on its own.
FlowUnused ==
    /\ op = "none"
    /\ fns = <<>>
    /\ parentDone = FALSE
    /\ doneAtCall = FALSE
    /\ hasChild = FALSE
    /\ childDone = FALSE
    /\ cancels = 0
    /\ pc = "none"
    /\ idx = 1
    /\ job = <<>>
    /\ jobRes = <<>>
    /\ invoked = <<>>
    /\ wg = 0
    /\ waiter = "none"
    /\ closed = 0
    /\ received = <<>>
    /\ cur = NoResult
    /\ errs = <<>>
    /\ out = <<>>
    /\ winner = ZeroResult
    /\ ret = NoReturn

\* The functions that may be submitted: plain ones, which return once they
\* run, and those of the test, which return once BarrierSize of them have
\* started.
Functions == [1..MaxJobs -> {"plain", "barrier"}]

\* LimitExecutor(l, UnlimitedExecutor), not started, which may be started
\* budget times, and the functions fs that will be submitted to it.
NewExecutor(l, budget, fs) ==
    [limit |-> l,
     starts |-> budget,
     ingest |-> 0,
     gens |-> 0,
     chClosed |-> [g \in Gens |-> 0],
     loop |-> [g \in Gens |-> "none"],
     queue |-> [g \in Gens |-> <<>>],
     current |-> [g \in Gens |-> 0],
     ewg |-> [g \in Gens |-> 0],
     efn |-> fs,
     ejob |-> [k \in 1..MaxJobs |-> "idle"],
     etarget |-> [k \in 1..MaxJobs |-> 0],
     arrived |-> 0,
     accepted |-> [g \in Gens |-> <<>>],
     dispatched |-> [g \in Gens |-> <<>>],
     stopped |-> "never",
     idle |-> [g \in Gens |-> 0]]

\* Start on e, finding p.ingest nil: the channel is made and the control loop
\* started.
WithControlLoop(e) ==
    [e EXCEPT !.gens = e.gens + 1,
              !.ingest = e.gens + 1,
              !.loop[e.gens + 1] = "running"]

\* A new executor, not started, and no coordination call.
InitLimitExecutor(budget) ==
    /\ FlowUnused
    /\ \E l \in 0..MaxLimit : \E fs \in Functions : ex = NewExecutor(l, budget, fs)

\* LimitExecutor(limit, UnlimitedExecutor) after its Start.
InitStarted ==
    /\ FlowUnused
    /\ \E l \in 0..MaxLimit : \E fs \in Functions : ex = WithControlLoop(NewExecutor(l, 1, fs))

\* Start, finding p.ingest nil: make the channel and start the control loop.
Start ==
    /\ ingest = 0
    /\ gens < starts
    /\ ex' = WithControlLoop(ex)
    /\ UNCHANGED flowVars

StopMutNoCheck ==
    /\ gens >= 1
    /\ ex' = [ex EXCEPT !.chClosed[gens] = @ + 1,
                        !.ingest = 0,
                        !.stopped = IF ingest # 0 THEN "closed" ELSE "again"]
    /\ UNCHANGED flowVars

\* Stop, called from any goroutine: close the channel and forget it, if there
\* is one; nothing otherwise.
Stop ==
    /\ IF ingest # 0
       THEN ex' = [ex EXCEPT !.chClosed[ingest] = @ + 1,
                             !.ingest = 0,
                             !.stopped = "closed"]
       ELSE ex' = [ex EXCEPT !.stopped = "again"]
    /\ UNCHANGED flowVars

\* The value of p.ingest a Submit reads: channel g, or nil, written 0 for an
\* executor never started and -g for one whose channel g was closed by Stop.
IngestRead == IF ingest # 0 THEN ingest ELSE 0 - gens

\* Submit(k) begins: p.ingest is read (without the lock); the send on it
\* follows, and blocks forever on nil. The jobs are numbered in the order of
\* the calls of Submit, which may overlap.
SubmitCall(k) ==
    /\ ejob[k] = "idle"
    /\ \A j \in 1..(k - 1) : ejob[j] # "idle"
    /\ ex' = [ex EXCEPT !.ejob[k] = "submit", !.etarget[k] = IngestRead]
    /\ UNCHANGED flowVars

\* p.ingest <- f on a channel that was closed in the meantime: the send
\* panics.
SubmitPanic(k) ==
    /\ ejob[k] = "submit"
    /\ etarget[k] > 0
    /\ chClosed[etarget[k]] > 0
    /\ ex' = [ex EXCEPT !.ejob[k] = "panicked"]
    /\ UNCHANGED flowVars

\* A Submit is parked in its send on channel g.
IngestReady(g) ==
    \E k \in DOMAIN ejob : ejob[k] = "submit" /\ etarget[k] = g /\ chClosed[g] = 0

\* A wrapper started by control loop g is parked in done <- struct{}{}.
DoneReady(g) ==
    \E k \in DOMAIN ejob : ejob[k] = "returned" /\ etarget[k] = g

LoopIngestMutAnyChannel(g, k) ==
    /\ loop[g] = "running"
    /\ ejob[k] = "submit"
    /\ chClosed[g] = 0
    /\ ex' = [ex EXCEPT !.queue[g] = Append(@, k),
                        !.accepted[g] = Append(@, k),
                        !.ejob[k] = "queued"]
    /\ UNCHANGED flowVars

LoopIngestMutWhenFree(g, k) ==
    /\ loop[g] = "running"
    /\ ejob[k] = "submit"
    /\ etarget[k] = g
    /\ chClosed[g] = 0
    /\ current[g] < limit
    /\ ex' = [ex EXCEPT !.queue[g] = Append(@, k),
                        !.accepted[g] = Append(@, k),
                        !.ejob[k] = "queued"]
    /\ UNCHANGED flowVars

\* case f, ok := <-ingest, ok: the send of Submit(k) is received, Submit
\* returns, and f is appended to the queue.
LoopIngest(g, k) ==
    /\ loop[g] = "running"
    /\ ejob[k] = "submit"
    /\ etarget[k] = g
    /\ chClosed[g] = 0
    /\ ex' = [ex EXCEPT !.queue[g] = Append(@, k),
                        !.accepted[g] = Append(@, k),
                        !.ejob[k] = "queued"]
    /\ UNCHANGED flowVars

\* case f, ok := <-ingest, !ok: break Loop, on to wg.Wait().
LoopClosed(g) ==
    /\ loop[g] = "running"
    /\ chClosed[g] > 0
    /\ ex' = [ex EXCEPT !.loop[g] = "waiting"]
    /\ UNCHANGED flowVars

\* case <-done: current--. The wrapper of k, whose send this is, returns and
\* its deferred wg.Done() runs.
LoopDone(g, k) ==
    /\ loop[g] = "running"
    /\ ejob[k] = "returned"
    /\ etarget[k] = g
    /\ ex' = [ex EXCEPT !.current[g] = @ - 1,
                        !.ewg[g] = @ - 1,
                        !.ejob[k] = "finished"]
    /\ UNCHANGED flowVars

MayDispatchMutNoLimit(g) == Len(queue[g]) > 0

MayDispatchMutOffByOne(g) == Len(queue[g]) > 0 /\ current[g] + 1 < limit

MayDispatchMutAtLimit(g) == Len(queue[g]) > 0 /\ current[g] <= limit

\* if len(queue) > 0 && current < p.maxRunning
MayDispatch(g) == Len(queue[g]) > 0 /\ current[g] < limit

NextInQueueMutLast(g) == Len(queue[g])

\* f := queue[0]; queue = queue[1:]: the position of the function taken.
NextInQueue(g) == 1

\* default: no case of the select is ready; the head of the queue is handed
\* to the inner executor, which starts the wrapper's goroutine.
LoopDispatch(g) ==
    /\ loop[g] = "running"
    /\ ~IngestReady(g) /\ chClosed[g] = 0 /\ ~DoneReady(g)
    /\ MayDispatch(g)
    /\ LET at == NextInQueue(g)
           k == queue[g][at]
       IN ex' = [ex EXCEPT !.current[g] = @ + 1,
                           !.queue[g] = SubSeq(@, 1, at - 1) \o SubSeq(@, at + 1, Len(@)),
                           !.ewg[g] = @ + 1,
                           !.ejob[k] = "dispatched",
                           !.dispatched[g] = Append(@, k)]
    /\ UNCHANGED flowVars

\* default, with nothing to dispatch: the iteration does nothing and the loop
\* goes round again.
LoopIdle(g) ==
    /\ loop[g] = "running"
    /\ ~IngestReady(g) /\ chClosed[g] = 0 /\ ~DoneReady(g)
    /\ ~MayDispatch(g)
    /\ idle[g] < MaxIdle
    /\ ex' = [ex EXCEPT !.idle[g] = @ + 1]
    /\ UNCHANGED flowVars

\* wg.Wait() returns and the deferred close(done) runs: the control loop's
\* goroutine ends.
LoopExit(g) ==
    /\ loop[g] = "waiting"
    /\ ewg[g] = 0
    /\ ex' = [ex EXCEPT !.loop[g] = "exited"]
    /\ UNCHANGED flowVars

\* The wrapper's goroutine calls f(); a function of the test first reports at
\* the barrier.
FnStart(k) ==
    /\ ejob[k] = "dispatched"
    /\ ex' = [ex EXCEPT !.ejob[k] = "running",
                        !.arrived = IF efn[k] = "barrier" THEN @ + 1 ELSE @]
    /\ UNCHANGED flowVars

\* f() returns: at once for a plain function, once the barrier is complete
\* for a function of the test.
FnReturn(k) ==
    /\ ejob[k] = "running"
    /\ efn[k] = "barrier" => arrived >= BarrierSize
    /\ ex' = [ex EXCEPT !.ejob[k] = "returned"]
    /\ UNCHANGED flowVars

\* The steps of the control loops and of the goroutines they start.
StepLimitExecutor ==
    \/ \E g \in Gens : \E k \in 1..MaxJobs : LoopIngest(g, k)
    \/ \E g \in Gens : LoopClosed(g)
    \/ \E g \in Gens : \E k \in 1..MaxJobs : LoopDone(g, k)
    \/ \E g \in Gens : LoopDispatch(g)
    \/ \E g \in Gens : LoopExit(g)
    \/ \E k \in 1..MaxJobs : FnStart(k)
    \/ \E k \in 1..MaxJobs : FnReturn(k)
    \/ \E k \in 1..MaxJobs : SubmitPanic(k)

\* The callers of the executor: Start, Stop and Submit at any moment.
UseLimitExecutor ==
    \/ Start
    \/ Stop
    \/ \E k \in 1..MaxJobs : SubmitCall(k)

\* An executor that is started at most once.
InitStartOnce == InitLimitExecutor(1)

NextLimitExecutor == StepLimitExecutor \/ UseLimitExecutor

SpecLimitExecutor == InitStartOnce /\ [][NextLimitExecutor]_vars

\* An executor that may be started again after a Stop.
InitRestart == InitLimitExecutor(MaxStarts)

SpecRestart == InitRestart /\ [][NextLimitExecutor]_vars

\* The iterations of a control loop whose channel is open.
LoopSteps ==
    \/ \E g \in Gens : \E k \in 1..MaxJobs : LoopIngest(g, k)
    \/ \E g \in Gens : \E k \in 1..MaxJobs : LoopDone(g, k)
    \/ \E g \in Gens : LoopDispatch(g)

\* The goroutines started by the inner executor get to call their function.
FnStarts == \E k \in 1..MaxJobs : FnStart(k)

\* The functions that can return do.
FnReturns == \E k \in 1..MaxJobs : FnReturn(k)

\* An executor that has been started and is never stopped.
NextNeverStopped ==
    \/ \E k \in 1..MaxJobs : SubmitCall(k)
    \/ LoopSteps
    \/ FnStarts
    \/ FnReturns

\* The control loop and the goroutines of the wrappers keep being scheduled;
\* whether a function returns is up to the function.
FairSpecNeverStopped ==
    InitStarted /\ [][NextNeverStopped]_vars /\ WF_vars(LoopSteps) /\ WF_vars(FnStarts)

\* The control loop of a started, never stopped executor, its iterations
\* without effect included.
NextLoopIterations ==
    \/ \E k \in 1..MaxJobs : SubmitCall(k)
    \/ LoopSteps
    \/ \E g \in Gens : LoopIdle(g)
    \/ FnStarts
    \/ FnReturns

SpecLoopIterations == InitStarted /\ [][NextLoopIterations]_vars

-----------------------------------------------------------------------------
(* Flow on a LimitingExecutor: New(LimitExecutor(limit, UnlimitedExecutor)) *)

\* runAll's f.executor.Submit(...) for function idx, the executor being a
\* LimitingExecutor: the caller reads p.ingest and is parked in its send.
LimitedSubmit ==
    /\ op # "Sequence"
    /\ pc = "submit"
    /\ idx <= N
    /\ ejob[idx] = "idle"
    /\ ex' = [ex EXCEPT !.ejob[idx] = "submit", !.etarget[idx] = IngestRead]
    /\ UNCHANGED flowVars

\* The control loop has received the send: Submit returns and runAll's loop
\* goes on.
LimitedSubmitReturn ==
    /\ op # "Sequence"
    /\ pc = "submit"
    /\ idx <= N
    /\ ejob[idx] \notin {"idle", "submit"}
    /\ idx' = idx + 1
    /\ UNCHANGED <<op, fns, parentDone, doneAtCall, hasChild, childDone, cancels, pc, job,
                   jobRes, invoked, wg, waiter, closed, received, cur, errs, out, winner, ret>>
    /\ UNCHANGED execVars

\* The wrapper's goroutine, started by the control loop's dispatch, calls
\* f(), which is runAll's func() { defer wg.Done(); run(i) }.
WrapperStart(i) ==
    /\ ejob[i] = "dispatched"
    /\ job[i] = "idle"
    /\ ex' = [ex EXCEPT !.ejob[i] = "running"]
    /\ job' = [job EXCEPT ![i] = "submitted"]
    /\ UNCHANGED <<op, fns, parentDone, doneAtCall, hasChild, childDone, cancels, pc, idx,
                   jobRes, invoked, wg, waiter, closed, received, cur, errs, out, winner, ret>>

\* runAll's function has sent its result and called wg.Done(): f() returns
\* to the wrapper, which goes on to done <- struct{}{}.
WrapperFnReturn(i) ==
    /\ ejob[i] = "running"
    /\ job[i] = "done"
    /\ ex' = [ex EXCEPT !.ejob[i] = "returned"]
    /\ UNCHANGED flowVars

\* Race on a Flow whose executor is a started LimitingExecutor with a limit
\* of at least 1; the functions are the jobs submitted to it.
InitRaceOnLimitExecutor ==
    /\ InitFlow({"Race"})
    /\ N <= MaxJobs
    /\ \E l \in 1..MaxLimit :
          ex = WithControlLoop(NewExecutor(l, 1, [k \in 1..MaxJobs |-> "plain"]))

\* The steps of the call, of its functions and of the executor.
StepRaceOnLimitExecutor ==
    \/ Call
    \/ LimitedSubmit
    \/ LimitedSubmitReturn
    \/ SpawnWaiter
    \/ \E i \in 1..N : LoopIngest(1, i)
    \/ LoopDispatch(1)
    \/ \E i \in 1..N : WrapperStart(i)
    \/ Jobs
    \/ \E i \in 1..N : WrapperFnReturn(i)
    \/ \E i \in 1..N : LoopDone(1, i)
    \/ \E i \in 1..N : RaceReceive(i)
    \/ RaceCancel
    \/ \E i \in 1..N : Drain(i)
    \/ RaceReturn

NextRaceOnLimitExecutor == StepRaceOnLimitExecutor \/ CancelParent

SpecRaceOnLimitExecutor == InitRaceOnLimitExecutor /\ [][NextRaceOnLimitExecutor]_vars

-----------------------------------------------------------------------------
(* Properties of Sequence *)

\* The first function of the call that returned a non-nil error, 0 if none has.
FirstFailed ==
    LET F == {i \in 1..N : jobRes[i].err \notin {Nil, "none"}}
    IN IF F = {} THEN 0 ELSE CHOOSE i \in F : \A j \in F : i <= j

\* C9: Sequence invokes its functions one at a time in list order, each at
\* most once, function i+1 only after function i has returned; it invokes no
\* function after the first one that returns a non-nil error and returns that
\* very error, unwrapped; if every function succeeds and the context is not
\* cancelled it returns nil.
C9_SequenceOrderAndFirstError ==
    op = "Sequence" =>
        /\ \A i \in 1..N : invoked[i] <= 1
        /\ Cardinality({i \in 1..N : job[i] = "running"}) <= 1
        /\ \A i \in 1..N : \A j \in 1..N :
               (i < j /\ invoked[j] > 0) => (invoked[i] = 1 /\ job[i] = "done")
        /\ FirstFailed # 0 =>
               /\ \A j \in 1..N : j > FirstFailed => invoked[j] = 0
               /\ pc = "done"
               /\ ret.err = PlainError(jobRes[FirstFailed].err)
        /\ (pc = "done" /\ ~parentDone /\ FirstFailed = 0) =>
               /\ \A i \in 1..N : invoked[i] = 1 /\ jobRes[i].err = Nil
               /\ ret.err = PlainError(Nil)

\* A call of three functions whose second one failed: the third was never
\* invoked and the second's error was returned.
C9_Witness ==
    /\ op = "Sequence" /\ pc = "done" /\ N = 3
    /\ jobRes[1].err = Nil
    /\ jobRes[2].err = mkError(2)
    /\ invoked[3] = 0
    /\ ret.err = PlainError(mkError(2))

\* C10: Sequence checks the context after each function that succeeded and
\* never before a function: when the context is already cancelled at the call
\* the first function is still invoked exactly once, no later one is invoked,
\* and the context's error is returned, unless the first function returned a
\* non-nil error of its own, which takes precedence.
C10_SequenceChecksAfterTask ==
    (op = "Sequence" /\ doneAtCall /\ N >= 1) =>
        /\ \A j \in 2..N : invoked[j] = 0
        /\ pc = "done" =>
               /\ invoked[1] = 1
               /\ ret.err = IF jobRes[1].err # Nil THEN PlainError(jobRes[1].err)
                            ELSE PlainError(Canceled)

\* A call of three functions under an already cancelled context: the first
\* was invoked and succeeded, and the call returned the context's error.
C10_Witness ==
    /\ op = "Sequence" /\ doneAtCall /\ pc = "done" /\ N = 3
    /\ invoked[1] = 1
    /\ jobRes[1].err = Nil
    /\ invoked[2] = 0
    /\ ret.err = PlainError(Canceled)

-----------------------------------------------------------------------------
(* Properties of Parallel and ParallelCancelOnError *)

\* The elements of a sequence with their multiplicities.
BagOfSeq(q) == [e \in {q[k] : k \in DOMAIN q} |-> Cardinality({k \in DOMAIN q : q[k] = e})]

\* The non-nil errors the functions have returned so far, in list order.
ReturnedErrors ==
    LET all == [i \in 1..N |-> jobRes[i].err]
    IN SelectSeq(all, LAMBDA e : e \notin {Nil, "none"})

\* C1: Parallel invokes each of its N >= 1 functions exactly once, whatever
\* the siblings return, and the members of the error it returns are exactly
\* the non-nil errors the functions returned, as a multiset.
C1_ParallelRunsAllCollectsAll ==
    op \in ParallelOps =>
        /\ \A i \in 1..N : invoked[i] <= 1
        /\ (pc = "done" /\ N >= 1) =>
               /\ \A i \in 1..N : invoked[i] = 1 /\ jobRes[i] # NoResult
               /\ BagOfSeq(Errors(ret.err)) = BagOfSeq(ReturnedErrors)

\* Parallel of three functions returned two members while the first function
\* succeeded.
C1_Witness ==
    /\ op = "Parallel" /\ pc = "done" /\ N = 3
    /\ jobRes[1].err = Nil
    /\ Len(Errors(ret.err)) = 2
    /\ received[1] = 3

\* C2: Parallel and ParallelCancelOnError return nil exactly when no function
\* returned a non-nil error, and otherwise a multiError with at least one
\* member: one failing function gives a multiError of one member, never the
\* bare error, and a multiError without members is never returned.
C2_NilOrNonEmptyAggregate ==
    (op \in ParallelOps \cup CancelOnErrorOps /\ pc = "done") =>
        /\ (ret.err = PlainError(Nil)) <=> (ReturnedErrors = <<>>)
        /\ ret.err # PlainError(Nil) => (ret.err.multi /\ Len(ret.err.members) >= 1)
        /\ Len(ReturnedErrors) = 1 => ret.err = MultiError(ReturnedErrors)

\* A call of three functions of which exactly one failed returned a
\* multiError of one member.
C2_Witness ==
    /\ op \in CancelOnErrorOps /\ pc = "done" /\ N = 3
    /\ Len(ReturnedErrors) = 1
    /\ ret.err.multi
    /\ Len(Errors(ret.err)) = 1

\* The arguments of the test "should run the functions and cancel all if one
\* of them errors".
OneFailsTwoWait == <<ReturnTask(FALSE, mkError(1)), WaitTask, WaitTask>>

\* C3: ParallelCancelOnError returns only after all N functions have
\* reported, and the error it returns has the non-nil error of every function
\* as a member, those that returned the context's error after the
\* cancellation included: for one function that fails at once and two that
\* wait for the cancellation, three members.
C3_CancelOnErrorCollectsAll ==
    (op \in CancelOnErrorOps /\ pc = "done" /\ N >= 1) =>
        /\ Len(received) = N
        /\ \A i \in 1..N : job[i] = "done" /\ jobRes[i] # NoResult
        /\ BagOfSeq(Errors(ret.err)) = BagOfSeq(ReturnedErrors)
        /\ fns = OneFailsTwoWait =>
               BagOfSeq(Errors(ret.err)) = BagOfSeq(<<mkError(1), Canceled, Canceled>>)

\* The call of the test has returned, under a context of the caller that was
\* never cancelled.
C3_Witness ==
    /\ op = "ParallelCancelOnError" /\ pc = "done" /\ ~parentDone
    /\ fns = OneFailsTwoWait
    /\ Len(Errors(ret.err)) = 3

\* A non-nil error has been received by the caller.
ErrorReported == \E k \in DOMAIN received : jobRes[received[k]].err # Nil

\* C4: in ParallelCancelOnError, once a function has reported a non-nil
\* error the child context is cancelled, so that every function waiting for
\* its context returns; a later cancel() is a no-op: the context stays
\* cancelled.
C4_ErrorCancelsSiblings ==
    /\ [](op \in CancelOnErrorOps /\ ErrorReported /\ pc # "cancel" => childDone)
    /\ (op \in CancelOnErrorOps /\ ErrorReported)
           ~> (childDone /\ \A i \in 1..N : jobRes[i] # NoResult)
    /\ [][childDone => childDone']_vars

\* cancel() was called twice, and a function that waited for its context has
\* returned while the caller's own context was never cancelled.
C4_Witness ==
    /\ op \in CancelOnErrorOps /\ ~parentDone /\ pc = "recv"
    /\ cancels >= 2
    /\ \E i \in 1..N : fns[i].kind = "wait" /\ jobRes[i].err = Canceled

-----------------------------------------------------------------------------
(* Properties of Race and RaceCond *)

\* C5: Race returns the outcome of exactly one function, the one whose result
\* was received first: item and error are those of that function, the error
\* unwrapped; for [fails with E at once, waits, waits] that is E.
C5_RaceReturnsFirstReceived ==
    (op \in RaceOps /\ pc = "done" /\ N >= 1) =>
        /\ ret.item = jobRes[received[1]].item
        /\ ret.err = PlainError(jobRes[received[1]].err)
        /\ (fns = OneFailsTwoWait /\ ~parentDone) => ret.err = PlainError(mkError(1))

\* RaceBool returned (true, nil) of its second function although a sibling
\* failed.
C5_Witness ==
    /\ op = "RaceBool" /\ pc = "done" /\ N = 3
    /\ received[1] = 2
    /\ ret.item = TRUE /\ ret.err = PlainError(Nil)
    /\ jobRes[1].err = mkError(1)

\* C6: in Race the child context is cancelled once the first result is
\* received, be it a success or an error; hence every function, the waiting
\* ones included, returns, every result is received, and the channel is
\* closed.
C6_RaceCancelsAndDrains ==
    /\ [](op \in RaceOps /\ Len(received) >= 1 /\ pc # "cancel" => childDone)
    /\ (op \in RaceOps /\ Len(received) >= 1)
           ~> (childDone /\ closed = 1 /\ Len(received) = N /\ \A i \in 1..N : job[i] = "done")

\* The winner succeeded, the caller's context was never cancelled, and the
\* two waiting losers were received and the channel closed.
C6_Witness ==
    /\ op = "Race" /\ ~parentDone /\ N = 3 /\ closed = 1
    /\ fns[1].kind = "wait" /\ fns[3].kind = "wait"
    /\ received[1] = 2 /\ jobRes[2].err = Nil
    /\ Len(received) = 3

\* The caller waits: it is at a receive, the channel is open and no job
\* offers a result.
CallerWaits ==
    /\ pc \in {"recv", "drain"}
    /\ closed = 0
    /\ \A i \in 1..N : job[i] # "sending"

FirstDecisive ==
    LET D == {k \in DOMAIN received :
                 jobRes[received[k]].err # Nil \/ jobRes[received[k]].item = TRUE}
    IN IF D = {} THEN 0 ELSE CHOOSE k \in D : \A l \in D : k <= l

\* The arguments of the test of RaceCond.
TrueFalseWait == <<ReturnTask(TRUE, Nil), ReturnTask(FALSE, Nil), WaitTask>>

\* C8: RaceCond returns the first received result that has a non-nil error or
\* a true item and cancels the child context then; a received (false, nil)
\* neither cancels nor ends the wait; if all functions report (false, nil) it
\* returns (false, nil); for [(true, nil), (false, nil), waits] it returns
\* (true, nil) and the third function sees the cancellation.
C8_RaceCondFirstDecisive ==
    (op \in RaceCondOps /\ N >= 1) =>
        /\ (FirstDecisive # 0 /\ pc \in {"drain", "done"}) => childDone
        /\ (FirstDecisive = 0 /\ pc # "done") => (~childDone /\ cancels = 0)
        /\ (FirstDecisive = 0 /\ pc \in {"drain", "done"}) => Len(received) = N
        /\ pc = "done" =>
               /\ FirstDecisive # 0 =>
                      /\ ret.item = jobRes[received[FirstDecisive]].item
                      /\ ret.err = PlainError(jobRes[received[FirstDecisive]].err)
               /\ FirstDecisive = 0 => (ret.item = FALSE /\ ret.err = PlainError(Nil))
               /\ (fns = TrueFalseWait /\ ~parentDone) =>
                      /\ ret.item = TRUE /\ ret.err = PlainError(Nil)
                      /\ jobRes[3].err = Canceled

\* The call of the test received (false, nil) first and went on waiting, then
\* returned (true, nil).
C8_Witness ==
    /\ op = "RaceCond" /\ pc = "done" /\ ~parentDone
    /\ fns = TrueFalseWait
    /\ received[1] = 2
    /\ ret.item = TRUE
    /\ jobRes[3].err = Canceled

-----------------------------------------------------------------------------
(* Further properties of the operations *)

\* C18: called with no functions, every operation returns its identity
\* result (nil error, no items, zero item) in its first step: no job is
\* submitted, no child context derived, no waiter started, and the caller is
\* never at a receive.
C18_ZeroTasksIdentity ==
    N = 0 =>
        /\ pc \in {"start", "done"}
        /\ pc = "done" => ret = Return(FALSE, <<>>, PlainError(Nil))
        /\ ~hasChild /\ cancels = 0
        /\ idx = 1 /\ wg = 0 /\ waiter = "none" /\ closed = 0

\* RaceCond of no functions has returned (false, nil), under a context that
\* was cancelled before the call.
C18_Witness ==
    /\ op = "RaceCond" /\ N = 0 /\ doneAtCall /\ pc = "done"
    /\ ret.item = FALSE /\ ret.err = PlainError(Nil)

\* The items of the functions that returned a nil error, in list order.
ReturnedItems ==
    LET ok == SelectSeq([i \in 1..N |-> i], LAMBDA i : jobRes[i].err = Nil)
    IN [k \in DOMAIN ok |-> jobRes[ok[k]].item]

\* C19: the typed Parallel and ParallelCancelOnError return as items exactly
\* the items of the functions that returned a nil error and as members
\* exactly the non-nil errors of the others, both as multisets: a failed
\* function gives no item, a successful one gives its item whatever its
\* siblings did, and items and members together are N.
C19_TypedParallelItemsAndErrors ==
    (op \in {"ParallelBool", "ParallelBoolCancelOnError"} /\ pc = "done" /\ N >= 1) =>
        /\ BagOfSeq(ret.out) = BagOfSeq(ReturnedItems)
        /\ BagOfSeq(Errors(ret.err)) = BagOfSeq(ReturnedErrors)
        /\ Len(ret.out) + Len(Errors(ret.err)) = N

\* ParallelBoolCancelOnError received the first function's error first,
\* cancelled, and still returned the item true of the second function.
C19_Witness ==
    /\ op = "ParallelBoolCancelOnError" /\ pc = "done" /\ N = 3
    /\ received[1] = 1 /\ jobRes[1].err = mkError(1)
    /\ jobRes[2] = Result(TRUE, Nil)
    /\ ret.out = <<TRUE>>
    /\ Len(Errors(ret.err)) = 2

\* C20: Parallel hands the caller's context to its functions as it is and
\* never cancels anything: it derives no child context and calls no cancel(),
\* so a function that waits for its context returns only if the caller's own
\* context was cancelled, whatever its siblings returned.
C20_ParallelNeverCancels ==
    op \in ParallelOps =>
        /\ ~hasChild /\ ~childDone /\ cancels = 0
        /\ \A i \in 1..N : (fns[i].kind = "wait" /\ jobRes[i] # NoResult) => parentDone
        /\ (pc = "done" /\ \E i \in 1..N : fns[i].kind = "wait") => parentDone

\* Parallel has received a sibling's error while a function that waits for
\* its context is still blocked and nothing else is left to run.
C20_Witness ==
    /\ op = "Parallel" /\ ~parentDone /\ pc = "recv" /\ N = 3
    /\ errs = <<mkError(1)>>
    /\ job[1] = "done"
    /\ fns[2].kind = "wait" /\ job[2] = "running"
    /\ job[3] = "done"

-----------------------------------------------------------------------------
(* Properties of the LimitingExecutor *)

\* The jobs handed to the inner executor whose function has not returned.
InFlight == {k \in DOMAIN ejob : ejob[k] \in {"dispatched", "running"}}

\* The jobs whose function has been called.
Started == {k \in DOMAIN ejob : ejob[k] \in {"running", "returned", "finished"}}

\* The jobs whose function has returned.
Finished == {k \in DOMAIN ejob : ejob[k] \in {"returned", "finished"}}

\* C11: an executor with limit L that is started once never has more than L
\* jobs dispatched and not yet returned; with L = 2 and three jobs of which the
\* first two dispatched wait for each other at the barrier, the third has not
\* started unless one of the first two has returned.
C11_AtMostLimitInFlight ==
    /\ Cardinality(InFlight) <= limit
    /\ \A g \in Gens :
          (/\ limit = 2
           /\ Len(accepted[g]) = 3
           /\ Len(dispatched[g]) >= 2
           /\ efn[dispatched[g][1]] = "barrier"
           /\ efn[dispatched[g][2]] = "barrier"
           /\ accepted[g][3] \in Started)
          => (dispatched[g][1] \in Finished \/ dispatched[g][2] \in Finished)

\* The scenario of the test: limit 2, the two functions of the barrier in
\* flight together and complete, the third function accepted and waiting in
\* the queue, nothing stopped.
C11_Witness ==
    /\ limit = 2
    /\ stopped = "never"
    /\ Len(accepted[1]) = 3
    /\ Len(dispatched[1]) = 2
    /\ efn[dispatched[1][1]] = "barrier"
    /\ efn[dispatched[1][2]] = "barrier"
    /\ ejob[dispatched[1][1]] = "running"
    /\ ejob[dispatched[1][2]] = "running"
    /\ arrived = BarrierSize
    /\ queue[1] = <<accepted[1][3]>>

\* s has no element twice.
NoDuplicates(s) == \A i, j \in 1..Len(s) : s[i] = s[j] => i = j

\* C12: the jobs handed to the inner executor are, in order, the first jobs
\* accepted from Submit: none is overtaken, skipped or dispatched twice, and
\* the queue holds the rest in the order of acceptance.
C12_DispatchIsFifo ==
    \A g \in Gens :
        /\ Len(dispatched[g]) <= Len(accepted[g])
        /\ dispatched[g] = SubSeq(accepted[g], 1, Len(dispatched[g]))
        /\ queue[g] = SubSeq(accepted[g], Len(dispatched[g]) + 1, Len(accepted[g]))
        /\ NoDuplicates(dispatched[g])

\* Limit 1: three jobs were accepted in an order that is not the order of their
\* numbers, two of them have been dispatched one after the other and the third
\* waits.
C12_Witness ==
    /\ limit = 1
    /\ accepted[1] = <<2, 3, 1>>
    /\ dispatched[1] = <<2, 3>>
    /\ queue[1] = <<1>>
    /\ ejob[2] = "finished"

\* Submit(k) is parked in its send on the channel of a started executor.
Parked(k) == ejob[k] = "submit" /\ etarget[k] >= 1

\* C13: on a started, never stopped executor every Submit parked in its send
\* is received by the control loop and returns, whether or not the running
\* jobs ever return and whether or not the limit is reached.
C13_SubmitReturnsWithoutWaitingForJobs ==
    \A k \in 1..MaxJobs : Parked(k) ~> (ejob[k] = "queued")

\* Limit 1: the one running job waits at the barrier for a second function,
\* which cannot start, so it never returns; two later Submit calls have
\* returned all the same, their jobs in the queue.
C13_Witness ==
    /\ limit = 1
    /\ stopped = "never"
    /\ arrived = 1
    /\ \E a \in 1..MaxJobs : ejob[a] = "running" /\ efn[a] = "barrier"
    /\ current[1] = limit
    /\ Len(queue[1]) = 2

\* Control loop g has left its loop: it dispatches nothing any more.
LoopLeft(g) == loop[g] \in {"waiting", "exited"}

\* C14: with limit >= 1, the jobs accepted into the queue before Stop are
\* still dispatched after it: a control loop that has left its loop has left
\* no accepted job in its queue.
C14_QueuedJobsDrainAfterStop ==
    \A g \in Gens : (limit >= 1 /\ LoopLeft(g)) => queue[g] = <<>>

\* Submit(k) read p.ingest after Stop had set it to nil.
SubmittedAfterStop(k) == ejob[k] = "submit" /\ etarget[k] < 0

\* The send of Submit(k) can complete: by a receive of a control loop, or by
\* the panic of a send on a closed channel.
SendCanComplete(k) == ENABLED (SubmitPanic(k) \/ \E g \in Gens : LoopIngest(g, k))

\* C15: a Submit called after Stop has returned fails fast or is rejected: it
\* is not left in a send that nothing can complete.
C15_SubmitAfterStopFailsFast ==
    \A k \in 1..MaxJobs : SubmittedAfterStop(k) => SendCanComplete(k)

\* C16: a Stop after the first Stop closes nothing (no channel is ever closed
\* twice, which would panic) and leaves the executor, its control loop and the
\* jobs as they were.
C16_StopIsIdempotent ==
    /\ [](\A g \in Gens : chClosed[g] <= 1)
    /\ [][(stopped = "closed" /\ stopped' = "again")
          => UNCHANGED <<limit, starts, ingest, gens, chClosed, loop, queue, current, ewg,
                         efn, ejob, etarget, arrived, accepted, dispatched>>]_vars

\* Stop has been called a second time while a job was running and another was
\* waiting in the queue; the channel has been closed once.
C16_Witness ==
    /\ stopped = "again"
    /\ chClosed[1] = 1
    /\ ingest = 0
    /\ \E k \in 1..MaxJobs : ejob[k] = "running"
    /\ \E k \in 1..MaxJobs : ejob[k] = "queued"

\* Every job that runs returns: as a job runs once, time and again no job is
\* running.
RunningJobsReturn == []<>(\A k \in 1..MaxJobs : ejob[k] # "running")

\* Control loop 1 has a function in its queue and fewer than limit jobs
\* running.
Dispatchable == Len(queue[1]) > 0 /\ current[1] < limit

\* C17: on a started, never stopped executor, whenever the queue is not empty
\* and fewer than limit jobs are running a dispatch follows (that state ends,
\* and only a dispatch ends it); if every running job returns and limit >= 1,
\* every accepted job is dispatched and its function called; and no job is
\* dispatched twice.
C17_AcceptedJobsEventuallyRun ==
    /\ [](\A g \in Gens : NoDuplicates(dispatched[g]))
    /\ [][(Dispatchable /\ ~Dispatchable') => Len(dispatched[1]') = Len(dispatched[1]) + 1]_vars
    /\ Dispatchable ~> ~Dispatchable
    /\ RunningJobsReturn
          => \A k \in 1..MaxJobs : (ejob[k] = "queued" /\ limit >= 1) ~> (k \in Started)

\* Limit 1: every job was accepted while an earlier one held the only slot,
\* and all of them have run and returned, one after the other.
C17_Witness ==
    /\ limit = 1
    /\ stopped = "never"
    /\ Len(dispatched[1]) = MaxJobs
    /\ \A k \in 1..MaxJobs : ejob[k] = "finished"

-----------------------------------------------------------------------------
(* Properties of runAll *)

\* C21: in every operation that goes through runAll, every job sends at most
\* one result on the channel of its call, and exactly one by the time the
\* channel is closed; the channel is closed at most once, and only when all N
\* jobs have sent their result and called wg.Done(): no job is left to send on
\* a closed channel.
C21_OneResultPerJobOneClose ==
    op # "Sequence" =>
        /\ closed <= 1
        /\ \A i, j \in 1..Len(received) : received[i] = received[j] => i = j
        /\ \A i \in 1..Len(received) :
              received[i] \in 1..N /\ job[received[i]] \in {"sent", "done"}
        /\ \A i \in 1..N :
              job[i] \in {"sent", "done"} => \E j \in 1..Len(received) : received[j] = i
        /\ closed = 1 => /\ Len(received) = N
                         /\ \A i \in 1..N : job[i] = "done"
                         /\ wg = 0

\* Three jobs have reported, in an order that is not the order of the list,
\* and the channel has been closed after the last of them.
C21_Witness ==
    /\ op # "Sequence"
    /\ N = 3
    /\ received = <<3, 1, 2>>
    /\ closed = 1
    /\ waiter = "exited"

\* No function has returned a non-nil error so far and the caller's context
\* is not cancelled.
NoErrorNoCancel ==
    /\ ~parentDone
    /\ \A i \in 1..N : jobRes[i].err \in {"none", Nil}

\* C22: as long as no function of ParallelCancelOnError has returned a non-nil
\* error and the caller's context is not cancelled, the child context is not
\* cancelled before the call returns; the call then returns nil, and its
\* return is the one moment the child context is cancelled.
C22_NoSpuriousCancel ==
    (op \in CancelOnErrorOps /\ NoErrorNoCancel) =>
        /\ pc # "done" => (~childDone /\ cancels = 0)
        /\ pc = "done" => /\ ret.err = PlainError(Nil)
                          /\ Len(received) = N
                          /\ N >= 1 => (childDone /\ cancels = 1)

\* Three functions succeeded and the call has returned nil; its context was
\* cancelled once, at the return.
C22_Witness ==
    /\ op = "ParallelCancelOnError" /\ pc = "done" /\ NoErrorNoCancel
    /\ N = 3
    /\ \A i \in 1..N : jobRes[i].err = Nil
    /\ ret.err = PlainError(Nil)
    /\ childDone /\ cancels = 1

-----------------------------------------------------------------------------
(* Further properties of the LimitingExecutor *)

\* C23: an executor made with limit 0 never dispatches: the functions it
\* accepts stay in its queue, which never shrinks, and none of them is handed
\* to the inner executor or called.
C23_LimitZeroNeverDispatches ==
    /\ [](limit = 0 =>
            /\ \A g \in Gens : dispatched[g] = <<>> /\ queue[g] = accepted[g] /\ current[g] = 0
            /\ \A k \in 1..MaxJobs : ejob[k] \in {"idle", "submit", "queued", "panicked"})
    /\ [][limit = 0 => \A g \in Gens : Len(queue[g]') >= Len(queue[g])]_vars

\* Limit 0, started and not stopped: every Submit has returned and every
\* function sits in the queue.
C23_Witness ==
    /\ limit = 0
    /\ stopped = "never"
    /\ loop[1] = "running"
    /\ Len(queue[1]) = MaxJobs
    /\ \A k \in 1..MaxJobs : ejob[k] = "queued"

\* Submit(k) was called on an executor that had never been started: it read a
\* nil p.ingest.
SubmittedBeforeStart(k) == ejob[k] # "idle" /\ etarget[k] = 0

\* C24: a Submit on an executor that has never been started stays in its send
\* for ever, whatever happens next, a Start included: it does not return and
\* its function is neither queued nor called.
C24_SubmitBeforeStartBlocks ==
    /\ [](\A k \in 1..MaxJobs :
             SubmittedBeforeStart(k) =>
                 /\ ejob[k] = "submit"
                 /\ \A g \in Gens : \A i \in 1..Len(accepted[g]) : accepted[g][i] # k)
    /\ [][\A k \in 1..MaxJobs : SubmittedBeforeStart(k) => SubmittedBeforeStart(k)']_vars

\* Submit(1) came before Start and is still in its send, while the function
\* of Submit(2), called after Start, has run and returned.
C24_Witness ==
    /\ SubmittedBeforeStart(1)
    /\ ejob[1] = "submit"
    /\ loop[1] = "running"
    /\ stopped = "never"
    /\ etarget[2] = 1
    /\ ejob[2] = "finished"

\* Control loop g has nothing to do: no Submit and no finished wrapper waits
\* for it, and it has nothing it may dispatch.
NothingToDo(g) ==
    /\ loop[g] = "running"
    /\ \A k \in 1..MaxJobs : ~(ejob[k] = "submit" /\ etarget[k] = g)
    /\ \A k \in 1..MaxJobs : ~(ejob[k] = "returned" /\ etarget[k] = g)
    /\ queue[g] = <<>> \/ current[g] >= limit

\* C25: the control loop does not busy-spin: when it has nothing to do, no
\* iteration of it is enabled.
C25_LoopDoesNotSpin ==
    \A g \in Gens :
        NothingToDo(g) =>
            ~ENABLED (\/ \E k \in 1..MaxJobs : LoopIngest(g, k)
                      \/ \E k \in 1..MaxJobs : LoopDone(g, k)
                      \/ LoopDispatch(g)
                      \/ LoopIdle(g))

\* C26: a Submit that overlaps a Stop never panics by sending on a closed
\* channel: its function is queued, or the Submit is refused or stays blocked.
C26_SubmitNeverPanics ==
    \A k \in 1..MaxJobs : ejob[k] # "panicked"

\* The wrappers started by control loop g that have not delivered their
\* notification on done.
Undelivered(g) ==
    {k \in 1..MaxJobs : etarget[k] = g /\ ejob[k] \in {"dispatched", "running", "returned"}}

\* C27: after Stop every wrapper in flight still delivers its notification
\* and releases its slot of the WaitGroup, and the control loop ends: the
\* control loop, the only receiver on done, does not leave its loop while a
\* wrapper it started has yet to deliver.
C27_InFlightWrappersComplete ==
    \A g \in Gens : LoopLeft(g) => Undelivered(g) = {}

\* C29: the limit holds across restarts: the jobs dispatched and not yet
\* returned, those of a stopped control loop included, are never more than
\* limit; and a Start that finds the executor started makes no second control
\* loop: the only control loop whose channel is open is the one of p.ingest.
C29_LimitHoldsAcrossRestarts ==
    /\ Cardinality(InFlight) <= limit
    /\ \A g \in Gens : (loop[g] # "none" /\ chClosed[g] = 0) => g = ingest

-----------------------------------------------------------------------------
(* Properties of a Flow on a LimitingExecutor *)

\* C28: Race on a started LimitingExecutor with limit >= 1 returns whenever
\* one of its functions returns without waiting for the cancellation: as long
\* as the caller's context is not cancelled and the call has not returned,
\* the caller, a function or the executor can take a step.
C28_RaceOnLimitExecutorReturns ==
    (/\ ~parentDone
     /\ pc # "done"
     /\ \E i \in 1..N : fns[i].kind = "return")
    => ENABLED StepRaceOnLimitExecutor
====
